---- MODULE Spec2Model ----
(***************************************************************************)
(* Model of MaiRestaurantData.py: three raw sheets (sales, ingredient map, *)
(* shipments) are cleaned, sales are expanded to ingredient usage, usage   *)
(* is aggregated per (Month, Ingredient), joined to shipments, forecast    *)
(* with a 3-row rolling mean, and classified with a reorder flag.          *)
(*                                                                         *)
(* Raw cells and column headers are strings; the string operations of the  *)
(* code (strip, lower, replace, to_numeric, to_datetime) are tables over   *)
(* the finite universe of strings the model draws its inputs from.         *)
(* Arithmetic is exact: means are kept as fractions num/den.               *)
(***************************************************************************)
EXTENDS Integers, Sequences, FiniteSets, TLC

VARIABLES sales_raw, ingr_raw, ship_raw,      \* the three loaded sheets
          sales, ingr, ship,                  \* the cleaned tables
          usage_by_month_ing, combined,       \* the aggregate and the ledger
          total_sales, total_orders,          \* the top-line KPIs
          report, csv,                        \* what the page shows / offers
          defined,                            \* module-level names bound so far
          pc, error                           \* position in the script, failure

vars == <<sales_raw, ingr_raw, ship_raw, sales, ingr, ship, usage_by_month_ing,
          combined, total_sales, total_orders, report, csv, defined, pc, error>>

----------------------------------------------------------------------------
(* Generic helpers over sequences.                                          *)

Range(s) == {s[i] : i \in 1..Len(s)}

Second(p) == p[2]

\* the value paired with key k in a table of <<key, value>> pairs
Lookup(pairs, k, dflt) ==
    IF \E p \in pairs : p[1] = k
    THEN Second(CHOOSE p \in pairs : p[1] = k)
    ELSE dflt

RECURSIVE SumSeq(_)
SumSeq(s) == IF s = <<>> THEN 0 ELSE s[1] + SumSeq(Tail(s))

RECURSIVE Flatten(_)
Flatten(ss) == IF ss = <<>> THEN <<>> ELSE ss[1] \o Flatten(Tail(ss))

\* s reordered ascending in the integer keys k (k[i] is the key of s[i]); stable
StableSort(s, k) ==
    LET n == Len(s)
        Pos(i) == Cardinality({j \in 1..n : k[j] < k[i] \/ (k[j] = k[i] /\ j < i)}) + 1
    IN  [p \in 1..n |-> s[CHOOSE i \in 1..n : Pos(i) = p]]

\* the elements of the finite set S as a sequence ascending in key[x] (injective on S)
SetToSortedSeq(S, key) ==
    [p \in 1..Cardinality(S) |->
        CHOOSE x \in S : Cardinality({y \in S : key[y] < key[x]}) + 1 = p]

----------------------------------------------------------------------------
(* String operations, as tables over the strings the inputs are drawn from. *)

\* str.strip(): the strings of the universe that carry outer whitespace
StripPairs == { <<" Month ", "Month">>, <<"Amount ", "Amount">>,
                <<" Ingredient", "Ingredient">>, <<" Pork ", "Pork">>,
                <<"Ramen ", "Ramen">>, <<"  ", "">>, <<" weekly ", "weekly">> }
Strip(s) == Lookup(StripPairs, s, s)

\* str.lower(): the strings of the universe that carry an upper-case letter
LowerPairs == { <<"Month", "month">>, <<"MONTH", "month">>,
                <<"Item Name", "item name">>, <<"Item name", "item name">>,
                <<"ITEM NAME", "item name">>, <<"Item", "item">>,
                <<"Count", "count">>, <<"COUNT", "count">>, <<"Qty", "qty">>,
                <<"Quantity", "quantity">>, <<"Amount", "amount">>,
                <<"Ingredient", "ingredient">>, <<"INGREDIENT", "ingredient">>,
                <<"Ingrediant", "ingrediant">>, <<"Ingredients", "ingredients">>,
                <<"Units per Item", "units per item">>,
                <<"Units per item", "units per item">>,
                <<"UNITS PER ITEM", "units per item">>,
                <<"Units_per_Item", "units_per_item">>,
                <<"Unit per item", "unit per item">>,
                <<"Units per Item (oz)", "units per item (oz)">>,
                <<"Grams", "grams">>,
                <<"Quantity per Shipment", "quantity per shipment">>,
                <<"Quantity Per Shipment", "quantity per shipment">>,
                <<"QtyPerShipment", "qtypershipment">>,
                <<"Number of Shipments", "number of shipments">>,
                <<"NUMBER OF SHIPMENTS", "number of shipments">>,
                <<"NumShipments", "numshipments">>,
                <<"Unit of Shipment", "unit of shipment">>,
                <<"Unit", "unit">>,
                <<"Frequency", "frequency">>, <<"FREQUENCY", "frequency">>,
                <<"Weekly", "weekly">>, <<"Biweekly", "biweekly">>,
                <<"Monthly", "monthly">>, <<"Daily", "daily">> }
Lower(s) == Lookup(LowerPairs, s, s)

\* str.startswith("units per item") on lower-cased headers
StartsWithUnitsPerItem(s) == s \in {"units per item", "units per item (oz)"}

\* .str.replace("$", "") and .str.replace(",", "")
DollarPairs == { <<"$30", "30">>, <<"$1,200", "1,200">> }
ReplaceDollar(s) == Lookup(DollarPairs, s, s)
CommaPairs == { <<"1,200", "1200">> }
ReplaceComma(s) == Lookup(CommaPairs, s, s)

\* a float that may be NaN
NaN == [nan |-> TRUE, v |-> 0]
Num(n) == [nan |-> FALSE, v |-> n]

\* pd.to_numeric(..., errors="coerce") of one cell: the numerals of the universe
NumeralPairs == { <<"0", 0>>, <<"1", 1>>, <<"2", 2>>, <<"3", 3>>, <<"4", 4>>,
                  <<"5", 5>>, <<"10", 10>>, <<"12", 12>>, <<"15", 15>>,
                  <<"20", 20>>, <<"30", 30>>, <<"1200", 1200>> }
ToNumeric(s) ==
    IF \E p \in NumeralPairs : p[1] = s THEN Num(Lookup(NumeralPairs, s, 0)) ELSE NaN

FillNa(x, dflt) == IF x.nan THEN dflt ELSE x.v

\* a timestamp that may be NaT
NaT == [null |-> TRUE, y |-> 0, m |-> 0, d |-> 0]
Ts(y, m, d) == [null |-> FALSE, y |-> y, m |-> m, d |-> d]

\* pd.to_datetime(..., errors="coerce") of one cell
DatePairs == { <<"2024-12-28", Ts(2024, 12, 28)>>, <<"2025-01-15", Ts(2025, 1, 15)>>,
               <<"2025-02-10", Ts(2025, 2, 10)>>, <<"2025-03-05", Ts(2025, 3, 5)>>,
               <<"2025-04-20", Ts(2025, 4, 20)>>, <<"2025-05-02", Ts(2025, 5, 2)>>,
               <<"January 1, 2025", Ts(2025, 1, 1)>>,
               <<"February 1, 2025", Ts(2025, 2, 1)>>,
               <<"March 1, 2025", Ts(2025, 3, 1)>> }
ToDatetime(s) == Lookup(DatePairs, s, NaT)

\* col.astype(str) + " 1, 2025"
SuffixPairs == { <<"January", "January 1, 2025">>, <<"February", "February 1, 2025">>,
                 <<"March", "March 1, 2025">>, <<"TBD", "TBD 1, 2025">>,
                 <<"2025-01-15", "2025-01-15 1, 2025">> }
AppendDay(s) == Lookup(SuffixPairs, s, "? 1, 2025")

\* .dt.to_period("M").dt.to_timestamp(): the first day of the month, NaT kept
ToMonthStart(t) == IF t.null THEN NaT ELSE Ts(t.y, t.m, 1)

\* the order of timestamps
TsKey(t) == (t.y * 12 + t.m) * 32 + t.d

\* lexicographic rank of the item and ingredient names of the universe
NameRankPairs == { <<"Beef", 1>>, <<"Noodle", 2>>, <<"Pho", 3>>, <<"Pork", 4>>,
                   <<"Ramen", 5>>, <<"Tea", 6>>, <<"Tea Leaf", 7>> }
NameRank(s) == Lookup(NameRankPairs, s, 0)

----------------------------------------------------------------------------
(* Raw tables: cols is the header row, rows are functions header -> cell.   *)

Table(cols, rows) == [cols |-> cols, rows |-> rows]

HasCol(cols, c) == \E i \in 1..Len(cols) : cols[i] = c

\* df.rename / df.columns = [...]: the i-th header becomes newcols[i], cells are kept
Renamed(df, newcols) ==
    LET Orig(h) == df.cols[CHOOSE i \in 1..Len(newcols) : newcols[i] = h]
    IN  Table(newcols,
              [r \in 1..Len(df.rows) |-> [h \in Range(newcols) |-> df.rows[r][Orig(h)]]])

\* the outcome of a cleaner: the cleaned rows, st.stop() after st.error(msg), or an
\* uncaught exception
Ok(rows) == [status |-> "ok", msg |-> "", rows |-> rows]
Stopped(msg) == [status |-> "stopped", msg |-> msg, rows |-> <<>>]
Raised(exc) == [status |-> "raised", msg |-> exc, rows |-> <<>>]

\* fail(msg): st.error(msg) then st.stop(), which ends the script run
fail(msg) == Stopped(msg)

----------------------------------------------------------------------------
(* Cleaners.                                                                *)

\* normalize_month(col): col is the sequence of raw Month cells
normalize_month(col) ==
    LET m1 == [i \in 1..Len(col) |-> ToDatetime(col[i])]
        m  == IF \A i \in 1..Len(col) : m1[i].null
              THEN [i \in 1..Len(col) |-> ToDatetime(AppendDay(col[i]))]
              ELSE m1
    IN  [i \in 1..Len(col) |-> ToMonthStart(m[i])]

col_map == { <<"item name", "Item Name">>, <<"item", "Item Name">>,
             <<"qty", "Count">>, <<"quantity", "Count">> }

\* the header of a sales column after the strip and the col_map renames
SalesColName(c) == Lookup(col_map, Lower(Strip(c)), Strip(c))

\* the Amount cell after the two replaces, to_numeric and fillna(0.0)
CleanAmount(cell) == FillNa(ToNumeric(ReplaceComma(ReplaceDollar(cell))), 0)

clean_sales(df_in) ==
    LET df == Renamed(df_in, [i \in 1..Len(df_in.cols) |-> SalesColName(df_in.cols[i])])
        n  == Len(df.rows)
        Month == normalize_month([i \in 1..n |-> df.rows[i]["Month"]])
    IN  IF ~HasCol(df.cols, "Month")
        THEN fail("Sales sheet is missing a 'Month' column.")
        ELSE IF ~HasCol(df.cols, "Amount")
        THEN Raised("AttributeError")      \* df.get("Amount", 0) is the int 0
        ELSE IF ~HasCol(df.cols, "Count")
        THEN fail("Sales sheet is missing a 'Count' column.")
        ELSE IF ~HasCol(df.cols, "Item Name")
        THEN fail("Sales sheet is missing an 'Item Name' column.")
        ELSE Ok([i \in 1..n |->
                   [Month    |-> Month[i],
                    ItemName |-> df.rows[i]["Item Name"],
                    Count    |-> FillNa(ToNumeric(df.rows[i]["Count"]), 0),
                    Amount   |-> CleanAmount(df.rows[i]["Amount"])]])

NoCol == "<None>"

\* "units per item" in c.lower()
ContainsUnitsPerItem(s) ==
    Lower(s) \in {"units per item", "units per item (oz)"}

\* pick(*cands) of clean_ingredient_map over the stripped headers cols
pick(cols, cands) ==
    LET \* low2orig: the last header with a given lower-cased form wins
        Low2Orig(k) == cols[CHOOSE i \in 1..Len(cols) :
                               /\ Lower(cols[i]) = k
                               /\ \A j \in (i + 1)..Len(cols) : Lower(cols[j]) # k]
        InLow(k) == \E i \in 1..Len(cols) : Lower(cols[i]) = k
        Hit(j) == InLow(Lower(cands[j]))
        Pre(i) == /\ StartsWithUnitsPerItem(Lower(cols[i]))
                  /\ \A j \in 1..(i - 1) : Lower(cols[j]) # Lower(cols[i])
    IN  IF \E j \in 1..Len(cands) : Hit(j)
        THEN Low2Orig(Lower(cands[CHOOSE j \in 1..Len(cands) :
                                     Hit(j) /\ \A k \in 1..(j - 1) : ~Hit(k)]))
        ELSE IF /\ \E j \in 1..Len(cands) : ContainsUnitsPerItem(cands[j])
                /\ \E i \in 1..Len(cols) : StartsWithUnitsPerItem(Lower(cols[i]))
        THEN Low2Orig(Lower(cols[CHOOSE i \in 1..Len(cols) :
                                    Pre(i) /\ \A k \in 1..(i - 1) : ~Pre(k)]))
        ELSE NoCol

clean_ingredient_map(df_in) ==
    LET df0 == Renamed(df_in, [i \in 1..Len(df_in.cols) |-> Strip(df_in.cols[i])])
        item_col  == pick(df0.cols, <<"Item Name", "Item name", "item">>)
        ingr_col  == pick(df0.cols, <<"Ingredient", "Ingrediant", "Ingredients">>)
        units_col == pick(df0.cols, <<"Units per Item", "Units per item",
                                      "Units_per_Item", "Unit per item">>)
        n == Len(df0.rows)
        \* values stripped, "" replaced by NaN (kept as ""), then dropna
        stripped == [i \in 1..n |->
                       [ItemName   |-> Strip(df0.rows[i][item_col]),
                        Ingredient |-> Strip(df0.rows[i][ingr_col]),
                        Units      |-> FillNa(ToNumeric(df0.rows[i][units_col]), 0)]]
        Present(r) == r.ItemName # "" /\ r.Ingredient # ""
        kept == SelectSeq(stripped, Present)
        keys == {<<kept[i].ItemName, kept[i].Ingredient>> : i \in 1..Len(kept)}
        MaxUnits(k) ==
            CHOOSE u \in {kept[i].Units : i \in {j \in 1..Len(kept) :
                              <<kept[j].ItemName, kept[j].Ingredient>> = k}} :
                \A i \in 1..Len(kept) :
                    <<kept[i].ItemName, kept[i].Ingredient>> = k => kept[i].Units <= u
        rank == [k \in keys |-> NameRank(k[1]) * 100 + NameRank(k[2])]
        order == SetToSortedSeq(keys, rank)
    IN  IF item_col = NoCol \/ ingr_col = NoCol \/ units_col = NoCol
        THEN fail("Ingredient map missing columns")
        ELSE Ok([i \in 1..Len(order) |->
                   [ItemName   |-> order[i][1],
                    Ingredient |-> order[i][2],
                    Units      |-> MaxUnits(order[i])]])

\* the header of a shipment column after the strip and the renames
ShipColName(c) ==
    LET lc == Lower(Strip(c))
    IN  IF lc = "quantity per shipment" THEN "QtyPerShipment"
        ELSE IF lc = "unit of shipment" THEN "Unit"
        ELSE IF lc = "number of shipments" THEN "NumShipments"
        ELSE IF lc = "frequency" THEN "Frequency"
        ELSE Strip(c)

\* the frequency factor of np.where(...), as a fraction
FrequencyFactor(f) ==
    IF f = "weekly" THEN [num |-> 1, den |-> 1]
    ELSE IF f = "biweekly" THEN [num |-> 1, den |-> 2]
    ELSE IF f = "monthly" THEN [num |-> 1, den |-> 4]
    ELSE [num |-> 1, den |-> 1]

clean_shipments(df_in) ==
    LET df == Renamed(df_in, [i \in 1..Len(df_in.cols) |-> ShipColName(df_in.cols[i])])
        n  == Len(df.rows)
        Qty(i) == FillNa(ToNumeric(df.rows[i]["QtyPerShipment"]), 0)
        Cnt(i) == FillNa(ToNumeric(df.rows[i]["NumShipments"]), 0)
        Fac(i) == FrequencyFactor(Strip(Lower(df.rows[i]["Frequency"])))
    IN  IF \E c \in {"Ingredient", "QtyPerShipment", "NumShipments"} : ~HasCol(df.cols, c)
        THEN fail("Shipment sheet missing columns")
        ELSE IF ~HasCol(df.cols, "Frequency")
        THEN Raised("AttributeError")      \* df.get("Frequency","weekly") is a str
        ELSE Ok([i \in 1..n |->
                   [Ingredient     |-> df.rows[i]["Ingredient"],
                    QtyPerShipment |-> Qty(i),
                    NumShipments   |-> Cnt(i),
                    TotalReceived  |-> Qty(i) * Cnt(i),
                    WeeklySupply   |-> [num |-> Qty(i) * Cnt(i) * Fac(i).num,
                                        den |-> Fac(i).den],
                    Unit           |-> IF HasCol(df.cols, "Unit")
                                       THEN df.rows[i]["Unit"] ELSE ""]])

----------------------------------------------------------------------------
(* Transform: sales -> ingredient usage -> monthly usage -> combined ledger. *)

\* sales.merge(ingr, on="Item Name", how="left") with IngredientUsage assigned:
\* one row per match in ingr order, or one row of nulls when nothing matches
MergeSalesIngr(s, g) ==
    LET Matches(r) == SelectSeq(g, LAMBDA m : m.ItemName = r.ItemName)
        Joined(r) ==
            IF Matches(r) = <<>>
            THEN << [Month |-> r.Month, ItemName |-> r.ItemName, Count |-> r.Count,
                     Amount |-> r.Amount, IngredientNull |-> TRUE, Ingredient |-> "",
                     Units |-> NaN, IngredientUsage |-> NaN] >>
            ELSE [j \in 1..Len(Matches(r)) |->
                    [Month |-> r.Month, ItemName |-> r.ItemName, Count |-> r.Count,
                     Amount |-> r.Amount, IngredientNull |-> FALSE,
                     Ingredient |-> Matches(r)[j].Ingredient,
                     Units |-> Num(Matches(r)[j].Units),
                     IngredientUsage |-> Num(r.Count * Matches(r)[j].Units)] ]
    IN  Flatten([i \in 1..Len(s) |-> Joined(s[i])])

\* a merge result kept whole, as if the dropna were left out
KeepAllRows(u) == u

\* .dropna(subset=["Ingredient"])
DropNaIngredient(u) == SelectSeq(u, LAMBDA r : ~r.IngredientNull)

\* usage = merge, assign, dropna
Usage(s, g) == DropNaIngredient(MergeSalesIngr(s, g))

\* Series.sum(): NaN cells are skipped
SumSkipNa(xs) == SumSeq([i \in 1..Len(xs) |-> FillNa(xs[i], 0)])

\* usage.groupby(["Month","Ingredient"], as_index=False).agg(...): rows with a null
\* key are left out, groups come out sorted by key
GroupUsage(u) ==
    LET rows == SelectSeq(u, LAMBDA r : ~r.Month.null)
        keys == {<<rows[i].Month, rows[i].Ingredient>> : i \in 1..Len(rows)}
        rank == [k \in keys |-> TsKey(k[1]) * 100 + NameRank(k[2])]
        order == SetToSortedSeq(keys, rank)
        Of(k) == SelectSeq(rows, LAMBDA r : r.Month = k[1] /\ r.Ingredient = k[2])
    IN  [i \in 1..Len(order) |->
           [Month      |-> order[i][1],
            Ingredient |-> order[i][2],
            TotalUsed  |-> SumSkipNa([j \in 1..Len(Of(order[i])) |->
                                        Of(order[i])[j].IngredientUsage]),
            Orders     |-> SumSeq([j \in 1..Len(Of(order[i])) |->
                                        Of(order[i])[j].Count])]]

NullSupply == [nan |-> TRUE, num |-> 0, den |-> 1]
NullUnit == [null |-> TRUE, s |-> ""]

\* usage_by_month_ing.merge(ship[[...]], on="Ingredient", how="left")
MergeShip(u, sh) ==
    LET Matches(r) == SelectSeq(sh, LAMBDA m : m.Ingredient = r.Ingredient)
        Joined(r) ==
            IF Matches(r) = <<>>
            THEN << [Month |-> r.Month, Ingredient |-> r.Ingredient,
                     TotalUsed |-> r.TotalUsed, Orders |-> r.Orders,
                     TotalReceived |-> NaN, WeeklySupply |-> NullSupply,
                     Unit |-> NullUnit] >>
            ELSE [j \in 1..Len(Matches(r)) |->
                    [Month |-> r.Month, Ingredient |-> r.Ingredient,
                     TotalUsed |-> r.TotalUsed, Orders |-> r.Orders,
                     TotalReceived |-> Num(Matches(r)[j].TotalReceived),
                     WeeklySupply |-> [nan |-> FALSE,
                                       num |-> Matches(r)[j].WeeklySupply.num,
                                       den |-> Matches(r)[j].WeeklySupply.den],
                     Unit |-> [null |-> FALSE, s |-> Matches(r)[j].Unit]] ]
    IN  Flatten([i \in 1..Len(u) |-> Joined(u[i])])

\* combined.sort_values(["Ingredient","Month"])
SortLedger(c) ==
    StableSort(c, [i \in 1..Len(c) |-> NameRank(c[i].Ingredient) * 1000000 + TsKey(c[i].Month)])

Window == 3
MinPeriods == 1

\* the first row of the rolling window that ends at row i of the sorted ledger c:
\* the window holds up to Window rows of the same ingredient, ending at i
WindowStart(c, i) ==
    LET same == {j \in 1..i : c[j].Ingredient = c[i].Ingredient}
        k == Cardinality(same)                  \* position of row i in its group
        first == IF k > Window THEN k - Window + 1 ELSE 1
    IN  CHOOSE j \in same : Cardinality({x \in same : x <= j}) = first

\* an expanding mean: every row of the ingredient up to row i, as if the window
\* never dropped a row
ExpandingMean(c, i) ==
    LET win == {j \in 1..i : c[j].Ingredient = c[i].Ingredient}
    IN  [nan |-> FALSE,
         num |-> SumSeq([p \in 1..i |->
                           IF c[p].Ingredient = c[i].Ingredient THEN c[p].TotalUsed ELSE 0]),
         den |-> Cardinality(win)]

\* s.rolling(3, min_periods=1).mean() at row i of its group, as a fraction
RollingMean(c, i) ==
    LET win == {j \in WindowStart(c, i)..i : c[j].Ingredient = c[i].Ingredient}
        seq == SetToSortedSeq(win, [j \in win |-> j])
    IN  IF Cardinality(win) < MinPeriods
        THEN [nan |-> TRUE, num |-> 0, den |-> 1]
        ELSE [nan |-> FALSE,
              num |-> SumSeq([p \in 1..Len(seq) |-> c[seq[p]].TotalUsed]),
              den |-> Cardinality(win)]

\* the comparison with >= in place of >
ForecastAtLeast(f, tr) == ~f.nan /\ ~tr.nan /\ f.num >= tr.v * f.den

\* ForecastNextMonth > TotalReceived in floating point: false when either is NaN
ForecastExceeds(f, tr) == ~f.nan /\ ~tr.nan /\ f.num > tr.v * f.den

\* np.where(ForecastNextMonth > TotalReceived, "Reorder Soon", "OK")
ReorderFlagOf(f, tr) == IF ForecastExceeds(f, tr) THEN "Reorder Soon" ELSE "OK"

\* TotalUsed - TotalReceived
GapOf(used, tr) == IF tr.nan THEN NaN ELSE Num(used - tr.v)

\* the sort, the forecast, the gap and the flag
Forecasted(c0) ==
    LET c == SortLedger(c0)
    IN  [i \in 1..Len(c) |->
           [Month |-> c[i].Month, Ingredient |-> c[i].Ingredient,
            TotalUsed |-> c[i].TotalUsed, Orders |-> c[i].Orders,
            TotalReceived |-> c[i].TotalReceived, WeeklySupply |-> c[i].WeeklySupply,
            Unit |-> c[i].Unit,
            ForecastNextMonth |-> RollingMean(c, i),
            Gap_Received_vs_Used |-> GapOf(c[i].TotalUsed, c[i].TotalReceived),
            ReorderFlag |-> ReorderFlagOf(RollingMean(c, i), c[i].TotalReceived)]]

\* sales["Amount"].sum() and sales["Count"].sum()
TotalSales(s) == SumSeq([i \in 1..Len(s) |-> s[i].Amount])
TotalOrders(s) == SumSeq([i \in 1..Len(s) |-> s[i].Count])

\* the alerts table: seven columns sorted by ReorderFlag, Ingredient, Month
FlagRank(f) == IF f = "OK" THEN 0 ELSE 1
AlertsTable(c) ==
    LET t == [i \in 1..Len(c) |->
                [Month |-> c[i].Month, Ingredient |-> c[i].Ingredient,
                 TotalUsed |-> c[i].TotalUsed, TotalReceived |-> c[i].TotalReceived,
                 ForecastNextMonth |-> c[i].ForecastNextMonth, Unit |-> c[i].Unit,
                 ReorderFlag |-> c[i].ReorderFlag]]
    IN  StableSort(t, [i \in 1..Len(t) |->
                         (FlagRank(t[i].ReorderFlag) * 10 + NameRank(t[i].Ingredient))
                            * 1000000 + TsKey(t[i].Month)])

----------------------------------------------------------------------------
(* The inputs: raw sheets drawn from bounded sets.                           *)

MaxSales == 4       \* rows of a drawn sales sheet
MaxShip == 2        \* rows of a drawn shipment sheet

SalesCanon == <<"Month", "Item Name", "Count", "Amount">>
IngrCanon  == <<"Item Name", "Ingredient", "Units per Item">>
ShipCanon  == <<"Ingredient", "Quantity per Shipment", "Unit of Shipment",
                "Number of Shipments", "Frequency">>

SalesRow(m, it, c, a) ==
    ("Month" :> m) @@ ("Item Name" :> it) @@ ("Count" :> c) @@ ("Amount" :> a)
IngrRow(it, g, u) ==
    ("Item Name" :> it) @@ ("Ingredient" :> g) @@ ("Units per Item" :> u)
ShipRow(g, q, n, f, u) ==
    ("Ingredient" :> g) @@ ("Quantity per Shipment" :> q) @@ ("Unit of Shipment" :> u)
        @@ ("Number of Shipments" :> n) @@ ("Frequency" :> f)

\* a sheet whose header row is layout (pairs <<header, canonical name>>) over rows
\* keyed by canonical name
Sheet(layout, rows) ==
    LET cols == [i \in 1..Len(layout) |-> layout[i][1]]
        Canon(h) == Second(layout[CHOOSE i \in 1..Len(layout) : layout[i][1] = h])
    IN  Table(cols, [r \in 1..Len(rows) |-> [h \in Range(cols) |-> rows[r][Canon(h)]]])

CanonLayout(canon) == [i \in 1..Len(canon) |-> <<canon[i], canon[i]>>]

\* the sequences of indices into a universe of u rows, of length 0..n
RECURSIVE IndexSeqs(_, _)
IndexSeqs(u, n) ==
    IF n = 0 THEN {<<>>}
    ELSE LET prev == IndexSeqs(u, n - 1)
         IN  prev \cup {Append(s, i) : s \in {x \in prev : Len(x) = n - 1}, i \in 1..u}

\* the non-decreasing ones: one representative of every multiset of rows
RECURSIVE AscendingIndexSeqs(_, _)
AscendingIndexSeqs(u, n) ==
    IF n = 0 THEN {<<>>}
    ELSE LET prev == AscendingIndexSeqs(u, n - 1)
         IN  prev \cup UNION { {Append(s, i) : i \in (IF s = <<>> THEN 1 ELSE s[Len(s)])..u}
                               : s \in {x \in prev : Len(x) = n - 1} }

\* the rows of U at the indices idx
Rows(U, idx) == [i \in 1..Len(idx) |-> U[idx[i]]]

\* long sales sheets over four months and two mapped items
SalesUniverse ==
    << SalesRow("2025-04-20", "Ramen", "10", "12"), SalesRow("2025-03-05", "Ramen", "10", "12"),
       SalesRow("2025-02-10", "Ramen", "10", "12"), SalesRow("2025-01-15", "Ramen", "10", "12"),
       SalesRow("2025-04-20", "Ramen", "20", "$30"), SalesRow("2025-03-05", "Ramen", "20", "$30"),
       SalesRow("2025-02-10", "Ramen", "20", "$30"), SalesRow("2025-01-15", "Ramen", "20", "$30"),
       SalesRow("2025-04-20", "Pho", "20", "15"), SalesRow("2025-03-05", "Pho", "20", "15"),
       SalesRow("2025-02-10", "Pho", "20", "15"), SalesRow("2025-01-15", "Pho", "20", "15") >>

LongSales ==
    {Rows(SalesUniverse, idx) : idx \in AscendingIndexSeqs(Len(SalesUniverse), MaxSales) \ {<<>>}}

\* short sales sheets with unparsable cells, bare month names and an unmapped item
ShortSales ==
    { << SalesRow("2025-01-15", "Ramen", "10", "12"),
         SalesRow("2025-01-15", "Tea", "2", "$30") >>,
      << SalesRow("2025-02-10", "Ramen", "20", "$1,200"),
         SalesRow("TBD", "Ramen", "10", "n/a") >>,
      << SalesRow("January", "Ramen", "10", "12"),
         SalesRow("February", "Pho", "20", "12") >>,
      << SalesRow("January", "Ramen", "10", "12"),
         SalesRow("TBD", "Pho", "x", "12") >>,
      << SalesRow("2024-12-28", "Pho", "20", "15"),
         SalesRow("2025-01-15", "Ramen", "x", "12"),
         SalesRow("2025-01-15", "Ramen", "10", "12") >>,
      << SalesRow("2025-03-05", "Tea", "3", "$30") >> }

DefaultIngr == << IngrRow("Ramen", "Pork", "1"), IngrRow("Pho", "Noodle", "2"),
                  IngrRow("Pho", "Pork", "1") >>

IngrSheets ==
    { DefaultIngr,
      << IngrRow("Ramen ", " Pork ", "1"), IngrRow("Ramen", "Pork", "3"),
         IngrRow("Ramen", "  ", "2"), IngrRow("Pho", "Beef", "x") >>,
      << IngrRow("Pho", "Noodle", "2") >> }

ShipUniverse ==
    << ShipRow("Pork", "5", "3", "weekly", "kg"),
       ShipRow("Pork", "10", "2", "Biweekly", "kg"),
       ShipRow("Pork", "4", "x", "Monthly", ""),
       ShipRow("Noodle", "5", "3", " weekly ", "box"),
       ShipRow("Noodle", "10", "2", "Daily", "box"),
       ShipRow("Beef", "10", "1", "monthly", "kg") >>

ShipSheets == {Rows(ShipUniverse, idx) : idx \in IndexSeqs(Len(ShipUniverse), MaxShip)}

LongShip == << ShipRow("Noodle", "10", "2", "Biweekly", "box"),
              ShipRow("Pork", "5", "3", "weekly", "kg") >>

\* header rows differing from the canonical ones in case, whitespace, alias or by
\* a missing column
SalesLayouts ==
    { CanonLayout(SalesCanon),
      << <<" Month ", "Month">>, <<"item", "Item Name">>, <<"Qty", "Count">>,
         <<"Amount ", "Amount">> >>,
      << <<"month", "Month">>, <<"Item Name", "Item Name">>, <<"Count", "Count">>,
         <<"Amount", "Amount">> >>,
      << <<"Month", "Month">>, <<"Item Name", "Item Name">>, <<"count", "Count">>,
         <<"Amount", "Amount">> >>,
      << <<"Month", "Month">>, <<"ITEM NAME", "Item Name">>, <<"Quantity", "Count">>,
         <<"Amount", "Amount">> >>,
      << <<"Month", "Month">>, <<"Item Name", "Item Name">>, <<"Count", "Count">>,
         <<"amount", "Amount">> >>,
      << <<"Month", "Month">>, <<"Item Name", "Item Name">>, <<"Count", "Count">> >>,
      << <<"Item Name", "Item Name">>, <<"Count", "Count">>, <<"Amount", "Amount">> >>,
      << <<"Month", "Month">>, <<"Item Name", "Item Name">>, <<"Amount", "Amount">> >>,
      << <<"Month", "Month">>, <<"Count", "Count">>, <<"Amount", "Amount">> >>,
      << <<"Month", "Month">>, <<"Item Name", "Item Name">> >> }

IngrLayouts ==
    { CanonLayout(IngrCanon),
      << <<"item", "Item Name">>, <<"Ingrediant", "Ingredient">>,
         <<"Units per Item (oz)", "Units per Item">> >>,
      << <<"ITEM NAME", "Item Name">>, <<"INGREDIENT", "Ingredient">>,
         <<"UNITS PER ITEM", "Units per Item">> >>,
      << <<"Item", "Item Name">>, <<"Ingredients", "Ingredient">>,
         <<"Unit per item", "Units per Item">> >>,
      << <<"Item Name", "Item Name">>, <<"Ingredient", "Ingredient">>,
         <<"Grams", "Units per Item">> >>,
      << <<"Item Name", "Item Name">>, <<"Units per Item", "Units per Item">> >> }

ShipLayouts ==
    { CanonLayout(ShipCanon),
      << <<"Ingredient", "Ingredient">>, <<"Quantity per Shipment", "Quantity per Shipment">>,
         <<"Unit of Shipment", "Unit of Shipment">>,
         <<"Number of Shipments", "Number of Shipments">> >>,
      << <<"Ingredient", "Ingredient">>, <<"Quantity per Shipment", "Quantity per Shipment">>,
         <<"Number of Shipments", "Number of Shipments">>, <<"Frequency", "Frequency">> >>,
      << <<"ingredient", "Ingredient">>, <<"Quantity per Shipment", "Quantity per Shipment">>,
         <<"Unit of Shipment", "Unit of Shipment">>,
         <<"Number of Shipments", "Number of Shipments">>, <<"Frequency", "Frequency">> >>,
      << <<" Ingredient", "Ingredient">>, <<"quantity per shipment", "Quantity per Shipment">>,
         <<"NUMBER OF SHIPMENTS", "Number of Shipments">>, <<"FREQUENCY", "Frequency">> >>,
      << <<"Ingredient", "Ingredient">>, <<"QtyPerShipment", "Quantity per Shipment">>,
         <<"NumShipments", "Number of Shipments">>, <<"Frequency", "Frequency">>,
         <<"Unit", "Unit of Shipment">> >>,
      << <<"Ingredient", "Ingredient">>, <<"Unit of Shipment", "Unit of Shipment">>,
         <<"Number of Shipments", "Number of Shipments">>, <<"Frequency", "Frequency">> >>,
      << <<"Quantity per Shipment", "Quantity per Shipment">>,
         <<"Number of Shipments", "Number of Shipments">> >> }

FixedSales == << SalesRow("2025-01-15", "Ramen", "10", "12"),
                 SalesRow("2025-02-10", "Pho", "20", "$30") >>
FixedShip == << ShipRow("Pork", "5", "3", "Biweekly", "kg") >>

\* canonical headers, long sales sheets
InitLong ==
    /\ sales_raw \in {Sheet(CanonLayout(SalesCanon), s) : s \in LongSales}
    /\ ingr_raw = Sheet(CanonLayout(IngrCanon), DefaultIngr)
    /\ ship_raw = Sheet(CanonLayout(ShipCanon), LongShip)

\* canonical headers, short sales sheets, varied ingredient maps and shipments
InitShort ==
    /\ sales_raw \in {Sheet(CanonLayout(SalesCanon), s) : s \in ShortSales}
    /\ ingr_raw \in {Sheet(CanonLayout(IngrCanon), s) : s \in IngrSheets}
    /\ ship_raw \in {Sheet(CanonLayout(ShipCanon), s) : s \in ShipSheets}

\* varied header rows over fixed rows
InitLayouts ==
    /\ sales_raw \in {Sheet(l, FixedSales) : l \in SalesLayouts}
    /\ ingr_raw \in {Sheet(l, DefaultIngr) : l \in IngrLayouts}
    /\ ship_raw \in {Sheet(l, FixedShip) : l \in ShipLayouts}

NoError == [at |-> "", msg |-> ""]

Init ==
    /\ InitLong \/ InitShort \/ InitLayouts
    /\ sales = <<>> /\ ingr = <<>> /\ ship = <<>>
    /\ usage_by_month_ing = <<>> /\ combined = <<>>
    /\ total_sales = 0 /\ total_orders = 0
    /\ report = <<>> /\ csv = <<>>
    /\ defined = {"sales_raw", "ingr_raw", "ship_raw"}
    /\ pc = "clean_sales"
    /\ error = NoError

----------------------------------------------------------------------------
(* The script, one action per step of the module body (lines 149-226).      *)

\* a cleaner that did not return ends the run: st.stop() or an uncaught exception
Halt(at, r) ==
    /\ pc' = r.status
    /\ error' = [at |-> at, msg |-> r.msg]

\* sales = clean_sales(sales_raw)
CleanSales ==
    /\ pc = "clean_sales"
    /\ LET r == clean_sales(sales_raw)
       IN  IF r.status = "ok"
           THEN /\ sales' = r.rows
                /\ defined' = defined \cup {"sales"}
                /\ pc' = "clean_ingr"
                /\ error' = error
           ELSE /\ Halt("clean_sales", r)
                /\ UNCHANGED <<sales, defined>>
    /\ UNCHANGED <<sales_raw, ingr_raw, ship_raw, ingr, ship, usage_by_month_ing,
                   combined, total_sales, total_orders, report, csv>>

\* ingr = clean_ingredient_map(ingr_raw)
CleanIngredientMap ==
    /\ pc = "clean_ingr"
    /\ LET r == clean_ingredient_map(ingr_raw)
       IN  IF r.status = "ok"
           THEN /\ ingr' = r.rows
                /\ defined' = defined \cup {"ingr"}
                /\ pc' = "clean_ship"
                /\ error' = error
           ELSE /\ Halt("clean_ingredient_map", r)
                /\ UNCHANGED <<ingr, defined>>
    /\ UNCHANGED <<sales_raw, ingr_raw, ship_raw, sales, ship, usage_by_month_ing,
                   combined, total_sales, total_orders, report, csv>>

\* ship = clean_shipments(ship_raw)
CleanShipments ==
    /\ pc = "clean_ship"
    /\ LET r == clean_shipments(ship_raw)
       IN  IF r.status = "ok"
           THEN /\ ship' = r.rows
                /\ defined' = defined \cup {"ship"}
                /\ pc' = "transform"
                /\ error' = error
           ELSE /\ Halt("clean_shipments", r)
                /\ UNCHANGED <<ship, defined>>
    /\ UNCHANGED <<sales_raw, ingr_raw, ship_raw, sales, ingr, usage_by_month_ing,
                   combined, total_sales, total_orders, report, csv>>

\* usage = ...; usage_by_month_ing = usage.groupby(...).agg(...)
Transform ==
    /\ pc = "transform"
    /\ usage_by_month_ing' = GroupUsage(Usage(sales, ingr))
    /\ defined' = defined \cup {"usage", "usage_by_month_ing"}
    /\ pc' = "combine"
    /\ UNCHANGED <<sales_raw, ingr_raw, ship_raw, sales, ingr, ship, combined,
                   total_sales, total_orders, report, csv, error>>

\* combined = usage_by_month_ing.merge(ship[[...]], on="Ingredient", how="left")
Combine ==
    /\ pc = "combine"
    /\ combined' = MergeShip(usage_by_month_ing, ship)
    /\ defined' = defined \cup {"combined"}
    /\ pc' = "forecast"
    /\ UNCHANGED <<sales_raw, ingr_raw, ship_raw, sales, ingr, ship, usage_by_month_ing,
                   total_sales, total_orders, report, csv, error>>

\* the sort and the three derived columns of combined
Forecast ==
    /\ pc = "forecast"
    /\ combined' = Forecasted(combined)
    /\ pc' = "kpis"
    /\ UNCHANGED <<sales_raw, ingr_raw, ship_raw, sales, ingr, ship, usage_by_month_ing,
                   total_sales, total_orders, report, csv, defined, error>>

\* total_sales = sales["Amount"].sum(); total_orders = sales["Count"].sum()
KPIs ==
    /\ pc = "kpis"
    /\ total_sales' = TotalSales(sales)
    /\ total_orders' = TotalOrders(sales)
    /\ defined' = defined \cup {"total_sales", "total_orders"}
    /\ pc' = "alerts"
    /\ UNCHANGED <<sales_raw, ingr_raw, ship_raw, sales, ingr, ship, usage_by_month_ing,
                   combined, report, csv, error>>

\* st.dataframe(the alerts table) and st.download_button(combined.to_csv(index=False))
Alerts ==
    /\ pc = "alerts"
    /\ report' = <<AlertsTable(combined)>>
    /\ csv' = <<combined>>
    /\ pc' = "done"
    /\ UNCHANGED <<sales_raw, ingr_raw, ship_raw, sales, ingr, ship, usage_by_month_ing,
                   combined, total_sales, total_orders, defined, error>>

Next == \/ CleanSales \/ CleanIngredientMap \/ CleanShipments \/ Transform
        \/ Combine \/ Forecast \/ KPIs \/ Alerts

Spec == Init /\ [][Next]_vars

----------------------------------------------------------------------------
(* Properties.                                                              *)

RECURSIVE SumOver(_, _)
SumOver(S, f) ==
    IF S = {} THEN 0
    ELSE LET x == CHOOSE y \in S : TRUE IN f[x] + SumOver(S \ {x}, f)

Min(a, b) == IF a <= b THEN a ELSE b

\* the stages that have run
Cleaned(name) == name \in defined
Transformed == "usage_by_month_ing" \in defined
Combined == "combined" \in defined
AfterForecast == pc \in {"kpis", "alerts", "done"}
Ended == pc \in {"done", "stopped", "raised"}

\* the headers of the sheets as the cleaners resolve them
SalesCols == [i \in 1..Len(sales_raw.cols) |-> SalesColName(sales_raw.cols[i])]
ShipCols == [i \in 1..Len(ship_raw.cols) |-> ShipColName(ship_raw.cols[i])]
IngrCols == [i \in 1..Len(ingr_raw.cols) |-> Strip(ingr_raw.cols[i])]

(* C1: every combined row whose Ingredient has no row in the cleaned shipment *)
(* table is flagged "Reorder Soon".                                           *)
C1_NoShipmentAlwaysReorder ==
    AfterForecast =>
        \A i \in 1..Len(combined) :
            (\A j \in 1..Len(ship) : ship[j].Ingredient # combined[i].Ingredient)
                => combined[i].ReorderFlag = "Reorder Soon"

(* C2: a sales sheet with Month, Item Name and Count but no Amount column is  *)
(* cleaned without failure and every cleaned row has Amount = 0.              *)
C2_AmountOptional ==
    ( /\ pc # "clean_sales"
      /\ \A c \in {"Month", "Item Name", "Count"} : HasCol(sales_raw.cols, c)
      /\ ~HasCol(sales_raw.cols, "Amount") )
    => /\ Cleaned("sales")
       /\ error.at # "clean_sales"
       /\ \A i \in 1..Len(sales) : sales[i].Amount = 0

(* C3: a shipment sheet with Ingredient, Quantity per Shipment and Number of  *)
(* Shipments but no Frequency column is cleaned without failure and every row *)
(* is weekly: WeeklySupply = TotalReceived = QtyPerShipment * NumShipments.   *)
C3_FrequencyOptional ==
    ( /\ Cleaned("ingr") /\ pc # "clean_ship"
      /\ \A c \in {"Ingredient", "Quantity per Shipment", "Number of Shipments"} :
            HasCol(ship_raw.cols, c)
      /\ \A i \in 1..Len(ship_raw.cols) : Lower(Strip(ship_raw.cols[i])) # "frequency" )
    => /\ Cleaned("ship")
       /\ error.at # "clean_shipments"
       /\ \A i \in 1..Len(ship) :
            /\ ship[i].TotalReceived = ship[i].QtyPerShipment * ship[i].NumShipments
            /\ ship[i].WeeklySupply.num = ship[i].TotalReceived * ship[i].WeeklySupply.den

\* a required column of the sheet is not resolved by its cleaner
SalesUnresolved == \E c \in {"Month", "Count", "Item Name"} : ~HasCol(SalesCols, c)
IngrUnresolved ==
    \/ pick(IngrCols, <<"Item Name", "Item name", "item">>) = NoCol
    \/ pick(IngrCols, <<"Ingredient", "Ingrediant", "Ingredients">>) = NoCol
    \/ pick(IngrCols, <<"Units per Item", "Units per item", "Units_per_Item",
                        "Unit per item">>) = NoCol
ShipUnresolved ==
    \E c \in {"Ingredient", "QtyPerShipment", "NumShipments"} : ~HasCol(ShipCols, c)

NothingProduced ==
    /\ defined \cap {"usage", "usage_by_month_ing", "combined"} = {}
    /\ usage_by_month_ing = <<>> /\ combined = <<>>
    /\ report = <<>> /\ csv = <<>>

SchemaFailureAt(cleaner) == pc = "stopped" /\ error.at = cleaner

(* C4: when a required column of a sheet cannot be resolved, the run halts at *)
(* that sheet's cleaner with a schema failure (st.stop() after st.error) and  *)
(* no usage aggregate, ledger, report table or CSV is produced.               *)
C4_SchemaFailureHalts ==
    /\ (SalesUnresolved \/ IngrUnresolved \/ ShipUnresolved) => NothingProduced
    /\ (Ended /\ SalesUnresolved) => SchemaFailureAt("clean_sales")
    /\ (Ended /\ ~SalesUnresolved /\ Cleaned("sales") /\ IngrUnresolved)
          => SchemaFailureAt("clean_ingredient_map")
    /\ (Ended /\ Cleaned("sales") /\ Cleaned("ingr") /\ ShipUnresolved)
          => SchemaFailureAt("clean_shipments")

\* rows of the ledger of the ingredient of row i, and the position of row i among
\* them in Month order (rows of one month in ledger order)
SameIngredient(i) == {j \in 1..Len(combined) : combined[j].Ingredient = combined[i].Ingredient}
MonthPos(i) ==
    Cardinality({j \in SameIngredient(i) :
        \/ TsKey(combined[j].Month) < TsKey(combined[i].Month)
        \/ (combined[j].Month = combined[i].Month /\ j < i)}) + 1
Trailing(i) ==
    {j \in SameIngredient(i) : MonthPos(j) <= MonthPos(i) /\ MonthPos(j) > MonthPos(i) - 3}

(* C5: per ingredient, in Month order, ForecastNextMonth of the k-th row is   *)
(* the mean of TotalUsed over that row and up to 2 preceding rows of the same *)
(* ingredient (window sizes 1, 2, 3, 3, ...); the first row's forecast is its *)
(* own TotalUsed; other ingredients never enter the window.                   *)
C5_ForecastIsTrailingMean ==
    AfterForecast =>
        \A i \in 1..Len(combined) :
            LET f == combined[i].ForecastNextMonth
                used == [j \in 1..Len(combined) |-> combined[j].TotalUsed]
            IN  /\ ~f.nan
                /\ Cardinality(Trailing(i)) = Min(MonthPos(i), 3)
                /\ f.den = Cardinality(Trailing(i))
                /\ f.num = SumOver(Trailing(i), used)
                /\ MonthPos(i) = 1 => f.num = combined[i].TotalUsed * f.den
                /\ \A j \in SameIngredient(i) : j < i => MonthPos(j) < MonthPos(i)

\* an ingredient with four months whose oldest usage differs from the newest, next
\* to another ingredient
C5_Witness ==
    /\ pc = "done"
    /\ \E i, j, k \in 1..Len(combined) :
          /\ MonthPos(i) = 4 /\ j \in SameIngredient(i) /\ MonthPos(j) = 1
          /\ combined[j].TotalUsed # combined[i].TotalUsed
          /\ combined[k].Ingredient # combined[i].Ingredient

(* C6: ReorderFlag is "Reorder Soon" exactly when ForecastNextMonth is        *)
(* strictly greater than TotalReceived and "OK" otherwise; equality gives     *)
(* "OK"; there is no third value.                                             *)
C6_ReorderFlagStrict ==
    AfterForecast =>
        \A i \in 1..Len(combined) :
            LET f == combined[i].ForecastNextMonth
                tr == combined[i].TotalReceived
                greater == ~f.nan /\ ~tr.nan /\ f.num > tr.v * f.den
            IN  /\ combined[i].ReorderFlag \in {"Reorder Soon", "OK"}
                /\ combined[i].ReorderFlag = "Reorder Soon" <=> greater
                /\ (~tr.nan /\ f.num = tr.v * f.den) => combined[i].ReorderFlag = "OK"

\* a ledger with a forecast equal to the supply, one above it and one below it
C6_Witness ==
    /\ pc = "done"
    /\ \E i, j, k \in 1..Len(combined) :
          /\ ~combined[i].TotalReceived.nan
          /\ combined[i].ForecastNextMonth.num =
                combined[i].TotalReceived.v * combined[i].ForecastNextMonth.den
          /\ combined[i].ReorderFlag = "OK"
          /\ combined[j].ReorderFlag = "Reorder Soon"
          /\ ~combined[k].TotalReceived.nan
          /\ combined[k].ForecastNextMonth.num <
                combined[k].TotalReceived.v * combined[k].ForecastNextMonth.den
          /\ combined[k].ReorderFlag = "OK"

\* the (sales row, mapping row) pairs that feed the group (month, ingredient)
Feeding(month, ingredient) ==
    {p \in (1..Len(sales)) \X (1..Len(ingr)) :
        /\ sales[p[1]].Month = month
        /\ sales[p[1]].ItemName = ingr[p[2]].ItemName
        /\ ingr[p[2]].Ingredient = ingredient}

Unmapped(i) == \A j \in 1..Len(ingr) : ingr[j].ItemName # sales[i].ItemName

(* C7: a sales row whose Item Name has no row in the cleaned ingredient map   *)
(* adds nothing to TotalUsed or Orders of any (Month, Ingredient) group and   *)
(* creates no group, while its Count and Amount are in the top-line totals.   *)
C7_UnmappedSalesOnlyInTotals ==
    /\ Transformed =>
          \A g \in 1..Len(usage_by_month_ing) :
              LET row == usage_by_month_ing[g]
                  feed == Feeding(row.Month, row.Ingredient)
              IN  /\ feed # {}
                  /\ row.TotalUsed =
                        SumOver(feed, [p \in feed |-> sales[p[1]].Count * ingr[p[2]].Units])
                  /\ row.Orders = SumOver(feed, [p \in feed |-> sales[p[1]].Count])
    /\ Cleaned("total_orders") =>
          /\ total_orders = SumOver(1..Len(sales), [i \in 1..Len(sales) |-> sales[i].Count])
          /\ total_sales = SumOver(1..Len(sales), [i \in 1..Len(sales) |-> sales[i].Amount])

\* a run with an unmapped sale that has a count and an amount, next to a mapped one
C7_Witness ==
    /\ pc = "done"
    /\ usage_by_month_ing # <<>>
    /\ \E i \in 1..Len(sales) :
          /\ Unmapped(i) /\ sales[i].Count > 0 /\ sales[i].Amount > 0
          /\ ~sales[i].Month.null
          /\ total_orders > sales[i].Count

\* the headers of the required columns differ from the canonical ones in letter case
\* only, the other headers are the canonical ones
CaseOnly(cols, canon, required) ==
    /\ Len(cols) = Len(canon)
    /\ \A i \in 1..Len(cols) :
          /\ Lower(cols[i]) = Lower(canon[i])
          /\ canon[i] \notin required => cols[i] = canon[i]
    /\ cols # canon

SalesRequired == {"Month", "Item Name", "Count"}
IngrRequired == {"Item Name", "Ingredient", "Units per Item"}
ShipRequired == {"Ingredient", "Quantity per Shipment", "Number of Shipments"}

\* the same sheet under the canonical headers
Recased(df, canon) ==
    Table(canon, [r \in 1..Len(df.rows) |->
                    [h \in Range(canon) |->
                        df.rows[r][df.cols[CHOOSE i \in 1..Len(canon) : canon[i] = h]]]])

ShipCanonNoUnit == <<"Ingredient", "Quantity per Shipment", "Number of Shipments",
                     "Frequency">>

(* C8: a sheet whose required headers differ from the canonical names only in *)
(* letter case is accepted by its cleaner and cleans to the same table as the *)
(* canonically-cased sheet.                                                   *)
C8_HeadersCaseInsensitive ==
    /\ (pc # "clean_sales" /\ CaseOnly(sales_raw.cols, SalesCanon, SalesRequired))
          => /\ Cleaned("sales")
             /\ sales = clean_sales(Recased(sales_raw, SalesCanon)).rows
    /\ (Cleaned("sales") /\ pc # "clean_ingr" /\ CaseOnly(ingr_raw.cols, IngrCanon, IngrRequired))
          => /\ Cleaned("ingr")
             /\ ingr = clean_ingredient_map(Recased(ingr_raw, IngrCanon)).rows
    /\ \A canon \in {ShipCanon, ShipCanonNoUnit} :
          (Cleaned("ingr") /\ pc # "clean_ship" /\ CaseOnly(ship_raw.cols, canon, ShipRequired))
              => /\ Cleaned("ship")
                 /\ ship = clean_shipments(Recased(ship_raw, canon)).rows

(* C9: the combined ledger holds exactly one row per (Month, Ingredient) pair *)
(* of the monthly usage aggregate, also when the shipment sheet has several   *)
(* rows for one Ingredient.                                                   *)
C9_OneRowPerMonthIngredient ==
    Combined =>
        /\ \A g \in 1..Len(usage_by_month_ing) :
              Cardinality({i \in 1..Len(combined) :
                  /\ combined[i].Month = usage_by_month_ing[g].Month
                  /\ combined[i].Ingredient = usage_by_month_ing[g].Ingredient}) = 1
        /\ Len(combined) = Len(usage_by_month_ing)

(* C10: after clean_sales returns, Month is non-null in every cleaned sales   *)
(* row, whatever the Month column holds.                                      *)
C10_MonthNeverNull ==
    Cleaned("sales") => \A i \in 1..Len(sales) : ~sales[i].Month.null

====
